---- MODULE Spec2Model ----
(***************************************************************************)
(* Exam-timetabling engines of binbin26/AI-Project: the Simulated          *)
(* Annealing solver (src/src/core/solvers/sa_solver.py), the Particle      *)
(* Swarm solver (src/src/core/solvers/pso_solver.py), their shared base    *)
(* (base_solver.py) and the two constraint models (constraints.py,         *)
(* optimization_fast.py), as one state machine.                            *)
(*                                                                         *)
(* Representation.  A date string "YYYY-MM-DD" is its day number, counted  *)
(* so that day % 7 = 0 is a Monday (dates are only compared for equality   *)
(* and bucketed by ISO week).  A time string "HH:MM" is the number written *)
(* by its digits, 100 * HH + MM ("07:30" is 730), and is parsed by         *)
(* ParseHM.  Room and proctor ids are positive integers.  Python's None    *)
(* is the value None.  Penalties are the integers the float                *)
(* formulas denote (all weights are integral; overflow/10 is kept exact by *)
(* multiplying out).  Course.name, exam_format and note are not modelled:  *)
(* no search operation or penalty reads them.  Not modelled either: the    *)
(* legacy Course.sessions list (no solver builds it), the texts of log     *)
(* events, convergence_history and the pbest/gbest update counters (only   *)
(* reported), and the PSO velocity (see the particle swarm section).       *)
(***************************************************************************)
EXTENDS Integers, Sequences, FiniteSets, TLC

\* ------------------------------------------------------------------------
\* Program constants
\* ------------------------------------------------------------------------
None == -1
Infinity == 999999999

ROOM_CONFLICT == 1000
ROOM_OVERCAPACITY == 500
PROCTOR_CONFLICT == 1000
LOCATION_MISMATCH == 50
UNSCHEDULED_COURSE == 2000
UNDERUTILIZATION == 5
WEEK_OVERLOAD == 200
DAY_OVERLOAD == 100
DEFAULT_DURATION == 90

\* BaseSolver._generate_time_slots: the fixed list of daily slots.
available_times == <<730, 930, 1330, 1530>>

\* ------------------------------------------------------------------------
\* Sequence helpers
\* ------------------------------------------------------------------------
Range(s) == {s[i] : i \in DOMAIN s}

RECURSIVE SumSeq(_)
SumSeq(s) == IF s = <<>> THEN 0 ELSE Head(s) + SumSeq(Tail(s))

RECURSIVE FlattenSeq(_)
FlattenSeq(ss) == IF ss = <<>> THEN <<>> ELSE Head(ss) \o FlattenSeq(Tail(ss))

Min2(a, b) == IF a < b THEN a ELSE b

\* ------------------------------------------------------------------------
\* Domain records (models/course.py, models/room.py)
\* ------------------------------------------------------------------------
\* Course(...): a course record; the assignment fields default to None,
\* is_locked to False and duration to 90.
Course(id, loc, n, locked, dur) ==
    [course_id |-> id, location |-> loc, student_count |-> n,
     is_locked |-> locked, duration |-> dur,
     assigned_date |-> None, assigned_time |-> None,
     assigned_room |-> None, assigned_proctor_id |-> None]

Assigned(c, d, t, r) ==
    [c EXCEPT !.assigned_date = d, !.assigned_time = t, !.assigned_room = r]

\* Course.is_scheduled (sessions is never set by the solvers).
is_scheduled(c) ==
    /\ c.assigned_date # None
    /\ c.assigned_time # None
    /\ c.assigned_room # None

\* Course.needs_splitting
needs_splitting(c, max_capacity) == c.student_count > max_capacity

Room(id, cap, loc) == [room_id |-> id, capacity |-> cap, location |-> loc]

\* ------------------------------------------------------------------------
\* Time overlap (ConstraintChecker._check_overlap and
\* FastConstraintChecker._check_overlap_cached compute the same expression;
\* the cache only memoises it)
\* ------------------------------------------------------------------------
\* datetime.strptime(t, "%H:%M"): minutes since midnight, or -1 when the
\* string does not parse (ValueError / TypeError).
ParseHM(t) ==
    IF t < 0 THEN -1
    ELSE IF (t \div 100) <= 23 /\ (t % 100) <= 59
         THEN 60 * (t \div 100) + (t % 100)
         ELSE -1

\* An overlap test on closed intervals, for which two exams that only touch
\* overlap: a fault the overlap property must catch.
_check_overlap_closed(t1, d1, t2, d2) ==
    LET s1 == ParseHM(t1)
        s2 == ParseHM(t2)
    IN  IF s1 < 0 \/ s2 < 0 THEN FALSE
        ELSE s1 <= s2 + d2 /\ s2 <= s1 + d1

_check_overlap(t1, d1, t2, d2) ==
    LET s1 == ParseHM(t1)
        s2 == ParseHM(t2)
    IN  IF s1 < 0 \/ s2 < 0 THEN FALSE
        ELSE s1 < s2 + d2 /\ s2 < s1 + d1

_check_overlap_cached(t1, d1, t2, d2) ==
    LET s1 == ParseHM(t1)
        s2 == ParseHM(t2)
    IN  IF s1 < 0 \/ s2 < 0 THEN FALSE
        ELSE s1 < s2 + d2 /\ s2 < s1 + d1

\* ------------------------------------------------------------------------
\* Full constraint model (constraints.py)
\* ------------------------------------------------------------------------
RoomIds(rooms) == {rooms[i].room_id : i \in DOMAIN rooms}

\* rooms_dict[room_id]: a later room with the same id overwrites an earlier.
RoomById(rooms, id) ==
    rooms[CHOOSE i \in DOMAIN rooms :
            /\ rooms[i].room_id = id
            /\ \A j \in DOMAIN rooms : rooms[j].room_id = id => j <= i]

\* Pairs i < j of scheduled courses in the same (date, room) group whose
\* intervals overlap, 1000 each.
_check_room_conflicts(cs) ==
    ROOM_CONFLICT * Cardinality(
        {p \in (DOMAIN cs) \X (DOMAIN cs) :
            /\ p[1] < p[2]
            /\ is_scheduled(cs[p[1]]) /\ is_scheduled(cs[p[2]])
            /\ cs[p[1]].assigned_date = cs[p[2]].assigned_date
            /\ cs[p[1]].assigned_room = cs[p[2]].assigned_room
            /\ _check_overlap(cs[p[1]].assigned_time, cs[p[1]].duration,
                              cs[p[2]].assigned_time, cs[p[2]].duration)})

_check_proctor_conflicts(cs) ==
    PROCTOR_CONFLICT * Cardinality(
        {p \in (DOMAIN cs) \X (DOMAIN cs) :
            /\ p[1] < p[2]
            /\ is_scheduled(cs[p[1]]) /\ is_scheduled(cs[p[2]])
            /\ cs[p[1]].assigned_proctor_id # None
            /\ cs[p[2]].assigned_proctor_id # None
            /\ cs[p[1]].assigned_date = cs[p[2]].assigned_date
            /\ cs[p[1]].assigned_proctor_id = cs[p[2]].assigned_proctor_id
            /\ _check_overlap(cs[p[1]].assigned_time, cs[p[1]].duration,
                              cs[p[2]].assigned_time, cs[p[2]].duration)})

\* 500 * (1 + overflow / 10)
\* A penalty that does not grow with the overflow: a fault the capacity
\* scaling property must catch.
OvercapacityPenaltyFlat(overflow) == ROOM_OVERCAPACITY

OvercapacityPenalty(overflow) == (ROOM_OVERCAPACITY * (10 + overflow)) \div 10

CapacityOne(rooms, c) ==
    IF ~is_scheduled(c) THEN 0
    ELSE IF c.assigned_room \notin RoomIds(rooms) THEN ROOM_OVERCAPACITY
    ELSE LET room == RoomById(rooms, c.assigned_room)
         IN  IF c.student_count > room.capacity
             THEN OvercapacityPenalty(c.student_count - room.capacity)
             ELSE 0

_check_room_capacity(rooms, cs) ==
    SumSeq([i \in DOMAIN cs |-> CapacityOne(rooms, cs[i])])

LocationOne(rooms, c) ==
    IF ~is_scheduled(c) THEN 0
    ELSE IF c.assigned_room \notin RoomIds(rooms) THEN 0
    ELSE IF RoomById(rooms, c.assigned_room).location # c.location
         THEN LOCATION_MISMATCH ELSE 0

_check_location_mismatch(rooms, cs) ==
    SumSeq([i \in DOMAIN cs |-> LocationOne(rooms, cs[i])])

_check_unscheduled_courses(cs) ==
    SumSeq([i \in DOMAIN cs |->
              IF is_scheduled(cs[i]) THEN 0 ELSE UNSCHEDULED_COURSE])

\* utilization = student_count / capacity < 0.5 ;
\* penalty 5 * (1 - utilization) * capacity = 5 * (capacity - student_count)
UnderOne(rooms, c) ==
    IF ~is_scheduled(c) THEN 0
    ELSE IF c.assigned_room \notin RoomIds(rooms) THEN 0
    ELSE LET room == RoomById(rooms, c.assigned_room)
         IN  IF room.capacity > 0 /\ 2 * c.student_count >= room.capacity
             THEN 0
             ELSE IF room.capacity > 0
                  THEN UNDERUTILIZATION * (room.capacity - c.student_count)
                  ELSE UNDERUTILIZATION * room.capacity

_check_room_underutilization(rooms, cs) ==
    SumSeq([i \in DOMAIN cs |-> UnderOne(rooms, cs[i])])

\* Monday of the week of a date.
MondayOf(d) == d - (d % 7)

ProctorsOf(cs) ==
    {cs[i].assigned_proctor_id : i \in DOMAIN cs} \ {None}

Worked(cs) ==
    {i \in DOMAIN cs : is_scheduled(cs[i]) /\ cs[i].assigned_proctor_id # None}

Excess(count, max) == IF count > max THEN count - max ELSE 0

RECURSIVE SumOver(_, _)
SumOver(S, f) ==
    IF S = {} THEN 0
    ELSE LET x == CHOOSE y \in S : TRUE
         IN  f[x] + SumOver(S \ {x}, f)

check_proctor_workload_per_week(cs, max_exams_per_week) ==
    LET keys == {<<cs[i].assigned_proctor_id, MondayOf(cs[i].assigned_date)>> :
                    i \in Worked(cs)}
        cnt == [k \in keys |->
                  Cardinality({i \in Worked(cs) :
                      /\ cs[i].assigned_proctor_id = k[1]
                      /\ MondayOf(cs[i].assigned_date) = k[2]})]
    IN  SumOver(keys, [k \in keys |->
                         WEEK_OVERLOAD * Excess(cnt[k], max_exams_per_week)])

check_proctor_workload_per_day(cs, max_exams_per_day) ==
    LET keys == {<<cs[i].assigned_proctor_id, cs[i].assigned_date>> :
                    i \in Worked(cs)}
        cnt == [k \in keys |->
                  Cardinality({i \in Worked(cs) :
                      /\ cs[i].assigned_proctor_id = k[1]
                      /\ cs[i].assigned_date = k[2]})]
    IN  SumOver(keys, [k \in keys |->
                         DAY_OVERLOAD * Excess(cnt[k], max_exams_per_day)])

\* ConstraintChecker.calculate_total_violation (the room-distance term is 0:
\* it only counts courses carrying sessions, which the solvers never create).
calculate_total_violation(rooms, maxw, maxd, cs) ==
    _check_room_conflicts(cs)
    + _check_room_capacity(rooms, cs)
    + _check_proctor_conflicts(cs)
    + _check_location_mismatch(rooms, cs)
    + _check_unscheduled_courses(cs)
    + _check_room_underutilization(rooms, cs)
    + check_proctor_workload_per_week(cs, maxw)
    + check_proctor_workload_per_day(cs, maxd)

\* A feasibility test that does not look at room conflicts: a fault the
\* feasibility property must catch.
is_feasible_without_rooms(rooms, cs) ==
    /\ _check_room_capacity(rooms, cs) = 0
    /\ _check_proctor_conflicts(cs) = 0

\* ConstraintChecker.is_feasible
is_feasible(rooms, cs) ==
    /\ _check_room_conflicts(cs) = 0
    /\ _check_room_capacity(rooms, cs) = 0
    /\ _check_proctor_conflicts(cs) = 0

\* ------------------------------------------------------------------------
\* Fast constraint model (optimization_fast.py)
\* ------------------------------------------------------------------------
_fast_room_conflicts(cs) ==
    ROOM_CONFLICT * Cardinality(
        {p \in (DOMAIN cs) \X (DOMAIN cs) :
            /\ p[1] < p[2]
            /\ is_scheduled(cs[p[1]]) /\ is_scheduled(cs[p[2]])
            /\ cs[p[1]].assigned_date = cs[p[2]].assigned_date
            /\ cs[p[1]].assigned_room = cs[p[2]].assigned_room
            /\ _check_overlap_cached(cs[p[1]].assigned_time, cs[p[1]].duration,
                                     cs[p[2]].assigned_time, cs[p[2]].duration)})

\* room_capacity.get(room_id, inf): an unknown room never overflows.
FastCapacityOne(rooms, c) ==
    IF ~is_scheduled(c) THEN 0
    ELSE IF c.assigned_room \notin RoomIds(rooms) THEN 0
    ELSE LET room == RoomById(rooms, c.assigned_room)
         IN  IF c.student_count > room.capacity
             THEN OvercapacityPenalty(c.student_count - room.capacity)
             ELSE 0

_fast_room_capacity(rooms, cs) ==
    SumSeq([i \in DOMAIN cs |-> FastCapacityOne(rooms, cs[i])])

_fast_proctor_conflicts(cs) ==
    PROCTOR_CONFLICT * Cardinality(
        {p \in (DOMAIN cs) \X (DOMAIN cs) :
            /\ p[1] < p[2]
            /\ is_scheduled(cs[p[1]]) /\ is_scheduled(cs[p[2]])
            /\ cs[p[1]].assigned_proctor_id # None
            /\ cs[p[2]].assigned_proctor_id # None
            /\ cs[p[1]].assigned_date = cs[p[2]].assigned_date
            /\ cs[p[1]].assigned_proctor_id = cs[p[2]].assigned_proctor_id
            /\ _check_overlap_cached(cs[p[1]].assigned_time, cs[p[1]].duration,
                                     cs[p[2]].assigned_time, cs[p[2]].duration)})

calculate_fast(rooms, cs) ==
    _fast_room_conflicts(cs)
    + _fast_room_capacity(rooms, cs)
    + _fast_proctor_conflicts(cs)

\* ------------------------------------------------------------------------
\* Search space builder (base_solver.py)
\* ------------------------------------------------------------------------
\* BaseSolver._generate_exam_dates with schedule_config start_date/end_date:
\* every day from start to end inclusive, in order.
DateRange(start, end) == [i \in 1..(IF end >= start THEN end - start + 1 ELSE 0)
                            |-> start + i - 1]

\* The date universe of a solver (base_solver.py 125-136, 249-285;
\* sa_solver.py 98).  A configuration holds exam_dates (<<>> when the key is
\* absent, else <<list>>) and schedule_config start_date and end_date (None
\* when absent).
\* Day 6 stands for 2025-06-01, a Sunday.
DEFAULT_BASE_DATE == 6
DEFAULT_DAYS == 14

DateConfig(exam_dates, start, end) ==
    [exam_dates |-> exam_dates, start_date |-> start, end_date |-> end]

\* BaseSolver._generate_exam_dates
_generate_exam_dates(config) ==
    IF config.start_date # None /\ config.end_date # None
    THEN DateRange(config.start_date, config.end_date)
    ELSE DateRange(DEFAULT_BASE_DATE, DEFAULT_BASE_DATE + DEFAULT_DAYS - 1)

\* self.available_dates after the constructor of the engine's class:
\* BaseSolver.__init__ takes exam_dates when given; SASolver.__init__ then
\* assigns self._generate_exam_dates() again, whatever exam_dates is.
available_dates(engine, config) ==
    LET base == IF config.exam_dates = <<>>
                THEN _generate_exam_dates(config)
                ELSE config.exam_dates[1]
    IN  IF engine = "SA" THEN _generate_exam_dates(config) ELSE base

\* The rooms of a location that hold student_count, in list order.
SuitableRooms(rooms, student_count, location) ==
    SelectSeq(rooms, LAMBDA r : r.location = location
                                /\ r.capacity >= student_count)

\* Utilization score of _find_optimal_room(prefer_smaller=False), as the
\* numerator of a fraction over 10 * capacity:
\*   0.6 <= u <= 0.9 : 1 - |u - 0.8| ;  u < 0.6 : u * 0.5 ;  else (1 - u) * 0.5
ScoreNum(n, cap) ==
    IF 6 * cap <= 10 * n /\ 10 * n <= 9 * cap
    THEN 10 * cap - (IF 10 * n >= 8 * cap THEN 10 * n - 8 * cap
                                          ELSE 8 * cap - 10 * n)
    ELSE IF 10 * n < 6 * cap THEN 5 * n
    ELSE 5 * (cap - n)

ScoreLess(n, r1, r2) ==
    ScoreNum(n, r1.capacity) * r2.capacity < ScoreNum(n, r2.capacity) * r1.capacity

\* BaseSolver._find_optimal_room: a room record, or None.
_find_optimal_room(rooms, student_count, location, prefer_smaller) ==
    LET suit == SuitableRooms(rooms, student_count, location)
    IN  IF suit = <<>> THEN None
        ELSE IF prefer_smaller
        THEN suit[CHOOSE i \in DOMAIN suit :
                    /\ \A j \in DOMAIN suit : suit[i].capacity <= suit[j].capacity
                    /\ \A j \in 1..(i - 1) : suit[j].capacity > suit[i].capacity]
        ELSE suit[CHOOSE i \in DOMAIN suit :
                    /\ \A j \in DOMAIN suit : ~ScoreLess(student_count, suit[i], suit[j])
                    /\ \A j \in 1..(i - 1) : ScoreLess(student_count, suit[j], suit[i])]

\* A first sibling that counts one student twice: a fault the split
\* property must catch.
SplitSiblingExtra(course, i, session_students) ==
    Course(<<course.course_id[1], i + 1>>, course.location,
           IF i = 0 THEN session_students + 1 ELSE session_students,
           FALSE, DEFAULT_DURATION)

\* The sibling built at line 467: only id, location and student_count are
\* passed on; is_locked, duration and the assignment take Course's defaults.
SplitSibling(course, i, session_students) ==
    Course(<<course.course_id[1], i + 1>>, course.location, session_students,
           FALSE, DEFAULT_DURATION)

\* The loop of _split_course_into_multiple_courses from session i on:
\* <<siblings, students left>>.
RECURSIVE SplitLoop(_, _, _, _, _, _)
SplitLoop(course, max_capacity, num_sessions, i, remaining, acc) ==
    IF i >= num_sessions THEN <<acc, remaining>>
    ELSE LET per == course.student_count \div num_sessions
             rem == course.student_count % num_sessions
             want == IF i < rem THEN per + 1 ELSE per
             session_students == Min2(Min2(want, max_capacity), remaining)
         IN  IF session_students > 0
             THEN SplitLoop(course, max_capacity, num_sessions, i + 1,
                            remaining - session_students,
                            Append(acc, SplitSibling(course, i, session_students)))
             ELSE SplitLoop(course, max_capacity, num_sessions, i + 1,
                            remaining, acc)

_split_course_into_multiple_courses(course, max_capacity) ==
    LET ceil == (course.student_count + max_capacity - 1) \div max_capacity
        num_sessions == IF ceil < 1 THEN 1 ELSE ceil
        res == SplitLoop(course, max_capacity, num_sessions, 0,
                         course.student_count, <<>>)
        split == res[1]
        left == res[2]
    IN  IF left > 0 /\ split # <<>>
        THEN [split EXCEPT ![Len(split)].student_count = @ + left]
        ELSE split

MaxCapacity(rooms) ==
    IF rooms = <<>> THEN 100
    ELSE CHOOSE m \in {rooms[i].capacity : i \in DOMAIN rooms} :
            \A i \in DOMAIN rooms : rooms[i].capacity <= m

\* What _prepare_courses_with_sessions puts in the list for one course.
PrepareOne(rooms, course) ==
    IF \/ needs_splitting(course, MaxCapacity(rooms))
       \/ SuitableRooms(rooms, course.student_count, course.location) = <<>>
    THEN _split_course_into_multiple_courses(course, MaxCapacity(rooms))
    ELSE <<course>>

_prepare_courses_with_sessions(rooms, courses) ==
    FlattenSeq([i \in DOMAIN courses |-> PrepareOne(rooms, courses[i])])

\* ------------------------------------------------------------------------
\* Random draws.  Every random.choice / random.sample / random.random of the
\* source is a choice among all the values the call can return.
\* ------------------------------------------------------------------------
\* All sequences s of the length of opts with s[i] \in opts[i].
RECURSIVE SeqProduct(_)
SeqProduct(opts) ==
    IF opts = <<>> THEN {<<>>}
    ELSE {<<h>> \o t : h \in Head(opts), t \in SeqProduct(Tail(opts))}

\* Proctor ids a course may be given by random.choice(self.proctors); the
\* field is left as it is when the list is empty.
ProctorDraws(proctors, c) ==
    IF proctors = <<>> THEN {c.assigned_proctor_id} ELSE Range(proctors)

\* ------------------------------------------------------------------------
\* Simulated annealing (sa_solver.py)
\* ------------------------------------------------------------------------
Schedule(cs, score) == [courses |-> cs, fitness_score |-> score]

\* The room ids an unlocked course may get in _generate_initial_solution.
InitialRoomDraws(rooms, c) ==
    LET opt == _find_optimal_room(rooms, c.student_count, c.location, FALSE)
        suit == SuitableRooms(rooms, c.student_count, c.location)
    IN  IF SuitableRooms(rooms, c.student_count, c.location) # <<>>
        THEN {opt.room_id}
        ELSE IF suit # <<>> THEN RoomIds(suit) ELSE RoomIds(rooms)

\* The copies of one processed course that the loop at line 137 can append.
InitialCourseDraws(inp, course) ==
    LET new_course == Course(course.course_id, course.location,
                             course.student_count, course.is_locked,
                             course.duration)
        placed ==
            IF course.is_locked /\ is_scheduled(course)
            THEN {Assigned(new_course, course.assigned_date,
                           course.assigned_time, course.assigned_room)}
            ELSE {Assigned(new_course, d, t, r) :
                    d \in Range(inp.dates), t \in Range(available_times),
                    r \in InitialRoomDraws(inp.rooms, new_course)}
    IN  {[c EXCEPT !.assigned_proctor_id = p] :
            c \in placed, p \in ProctorDraws(inp.proctors, new_course)}

\* SASolver._generate_initial_solution: every schedule it can return; the
\* fitness_score is the FULL model's penalty (line 192).
_generate_initial_solution(inp) ==
    LET processed == inp.processed_courses
    IN  {Schedule(cs, calculate_total_violation(inp.rooms, inp.max_exams_per_week,
                                                inp.max_exams_per_day, cs)) :
            cs \in SeqProduct([i \in DOMAIN processed |->
                                  InitialCourseDraws(inp, processed[i])])}

OldValues(c) == [date |-> c.assigned_date, time |-> c.assigned_time,
                 room |-> c.assigned_room, proctor |-> c.assigned_proctor_id]

NoBackup == [course_indices |-> <<>>, old_values |-> <<>>]

Move(cs, backup) == [courses |-> cs, backup |-> backup]

\* The room ids the 'room' change of a random move can assign.
RandomRoomDraws(rooms, c) ==
    LET opt == _find_optimal_room(rooms, c.student_count, c.location, FALSE)
        suit == SuitableRooms(rooms, c.student_count, c.location)
    IN  IF SuitableRooms(rooms, c.student_count, c.location) # <<>>
        THEN {opt.room_id}
        ELSE RoomIds(suit) \cup RoomIds(rooms)

\* The courses a random move can turn course c into, per change_type.
RandomChanges(inp, c) ==
    LET D == Range(inp.dates)
        T == Range(available_times)
        R == RandomRoomDraws(inp.rooms, c)
        P == ProctorDraws(inp.proctors, c)
    IN  {[c EXCEPT !.assigned_date = d] : d \in D}
        \cup {[c EXCEPT !.assigned_time = t] : t \in T}
        \cup {[c EXCEPT !.assigned_room = r] : r \in R}
        \cup {[c EXCEPT !.assigned_proctor_id = p] : p \in P}
        \cup {[c EXCEPT !.assigned_date = d, !.assigned_time = t,
                        !.assigned_room = r, !.assigned_proctor_id = p] :
                d \in D, t \in T, r \in R, p \in P}

\* A random move that takes its course from the whole schedule, locked or
\* not: a fault the pinning property must catch.
_perturb_move_random_unpinned(inp, cs) ==
    UNION {{Move([cs EXCEPT ![i] = c2],
                 [course_indices |-> <<i>>, old_values |-> <<OldValues(cs[i])>>]) :
               c2 \in RandomChanges(inp, cs[i])} :
           i \in DOMAIN cs}

\* SASolver._perturb_move_random: every (mutated courses, backup) it can give.
_perturb_move_random(inp, cs) ==
    LET modifiable == {i \in DOMAIN cs : ~cs[i].is_locked}
    IN  IF modifiable = {}
        THEN IF inp.proctors # <<>>
             THEN {Move([cs EXCEPT ![i].assigned_proctor_id = p],
                        [course_indices |-> <<i>>,
                         old_values |-> <<OldValues(cs[i])>>]) :
                     i \in DOMAIN cs, p \in Range(inp.proctors)}
             ELSE {Move(cs, NoBackup)}
        ELSE UNION {{Move([cs EXCEPT ![i] = c2],
                          [course_indices |-> <<i>>,
                           old_values |-> <<OldValues(cs[i])>>]) :
                        c2 \in RandomChanges(inp, cs[i])} :
                    i \in modifiable}

\* The swap branch of _perturb_move (lines 226-251).
SwapFields(cs, i, j) ==
    [cs EXCEPT ![i].assigned_date = cs[j].assigned_date,
               ![i].assigned_time = cs[j].assigned_time,
               ![i].assigned_room = cs[j].assigned_room,
               ![i].assigned_proctor_id = cs[j].assigned_proctor_id,
               ![j].assigned_date = cs[i].assigned_date,
               ![j].assigned_time = cs[i].assigned_time,
               ![j].assigned_room = cs[i].assigned_room,
               ![j].assigned_proctor_id = cs[i].assigned_proctor_id]

SwapMoves(cs) ==
    {Move(SwapFields(cs, i, j),
          [course_indices |-> <<i, j>>,
           old_values |-> <<OldValues(cs[i]), OldValues(cs[j])>>]) :
        <<i, j>> \in {q \in (DOMAIN cs) \X (DOMAIN cs) : q[1] # q[2]}}

\* The courses the smart branch can repair: scheduled, in a known room of
\* another location, with a suitable room at their own location.  is_locked
\* is not consulted (lines 259-272).
SmartFixable(inp, cs) ==
    {i \in DOMAIN cs :
        /\ is_scheduled(cs[i])
        /\ cs[i].assigned_room \in RoomIds(inp.rooms)
        /\ RoomById(inp.rooms, cs[i].assigned_room).location # cs[i].location
        /\ SuitableRooms(inp.rooms, cs[i].student_count, cs[i].location) # <<>>}

SmartMoves(inp, cs) ==
    LET fix == SmartFixable(inp, cs)
        idx == CHOOSE i \in fix : \A j \in fix : i <= j
    IN  IF _check_location_mismatch(inp.rooms, cs) > 0 /\ fix # {}
        THEN {Move([cs EXCEPT ![idx].assigned_room = r],
                   [course_indices |-> <<idx>>,
                    old_values |-> <<OldValues(cs[idx])>>]) :
                r \in RoomIds(SuitableRooms(inp.rooms, cs[idx].student_count,
                                            cs[idx].location))}
        ELSE _perturb_move_random(inp, cs)

\* SASolver._perturb_move
_perturb_move(inp, cs) ==
    IF cs = <<>> THEN {Move(cs, NoBackup)}
    ELSE IF inp.neighbor_type = "swap"
         THEN IF Len(cs) < 2 THEN _perturb_move_random(inp, cs)
                             ELSE SwapMoves(cs)
    ELSE IF inp.neighbor_type = "smart" THEN SmartMoves(inp, cs)
    ELSE _perturb_move_random(inp, cs)

\* A rollback that forgets the proctor: a fault the rollback property must
\* tell from the real one.
RestoreWithoutProctor(c, old) ==
    [c EXCEPT !.assigned_date = old.date, !.assigned_time = old.time,
              !.assigned_room = old.room]

Restore(c, old) ==
    [c EXCEPT !.assigned_date = old.date, !.assigned_time = old.time,
              !.assigned_room = old.room, !.assigned_proctor_id = old.proctor]

RECURSIVE UndoLoop(_, _, _)
UndoLoop(cs, backup, k) ==
    IF k > Len(backup.course_indices) \/ k > Len(backup.old_values) THEN cs
    ELSE LET idx == backup.course_indices[k]
         IN  UndoLoop(IF idx \in DOMAIN cs
                      THEN [cs EXCEPT ![idx] = Restore(cs[idx], backup.old_values[k])]
                      ELSE cs,
                      backup, k + 1)

\* SASolver._undo_move
_undo_move(cs, backup) ==
    IF backup.course_indices = <<>> THEN cs ELSE UndoLoop(cs, backup, 1)

\* SASolver._acceptance_probability against random.random():
\* the outcomes of `random.random() < accept_prob`.  A better move has
\* probability 1.0, an equal one exp(0) = 1.0; a worse one exp(-delta/T),
\* which the draw may or may not exceed.  (temperature = 0 with a move that
\* is not better raises ZeroDivisionError: see DivisionFault.)
AcceptDraws(current_cost_, new_cost, temp) ==
    IF new_cost <= current_cost_ THEN {TRUE} ELSE {TRUE, FALSE}

DivisionFault(current_cost_, new_cost, temp) ==
    new_cost >= current_cost_ /\ temp = 0

\* A best update that takes every accepted schedule: a fault the monotonic
\* best-cost property must catch.
ImprovesBestAlways(current_cost_, best_cost_) == TRUE

\* Line 527: the accepted schedule replaces the best one.
ImprovesBest(current_cost_, best_cost_) == current_cost_ < best_cost_

\* The penalty of the full model for the solver's rooms and proctor limits.
FullCost(inp, cs) ==
    calculate_total_violation(inp.rooms, inp.max_exams_per_week,
                              inp.max_exams_per_day, cs)

\* A final evaluation left on the fast model: a fault the reported-score
\* property must catch.
FinalCostFast(inp, cs) == calculate_fast(inp.rooms, cs)

\* The final evaluation at "Step 3: Finish" of both run methods.
FinalCost(inp, cs) == FullCost(inp, cs)

FastCost(inp, cs) == calculate_fast(inp.rooms, cs)

\* ------------------------------------------------------------------------
\* Particle swarm (pso_solver.py)
\* A position component is held as its integer part, which is all that
\* _decode_position_to_schedule reads of it.  The velocity only feeds the
\* next position; its random factors r1, r2 make the clipped new position a
\* point of the search box, and the model draws it from the whole box.
\* ------------------------------------------------------------------------
Clip(x, lo, hi) == IF x < lo THEN lo ELSE IF x > hi THEN hi ELSE x

\* self.time_slots_flat: every (date, time) pair, dates outermost.
time_slots_flat(dates) ==
    [k \in 1..(Len(dates) * Len(available_times)) |->
        <<dates[((k - 1) \div Len(available_times)) + 1],
          available_times[((k - 1) % Len(available_times)) + 1]>>]

\* Integer parts of the points between self.lb and self.ub.
SearchBox(inp, processed) ==
    SeqProduct([k \in 1..(2 * Len(processed)) |->
        IF k % 2 = 1
        THEN 0..(Len(inp.dates) * Len(available_times) - 1)
        ELSE 0..(Len(inp.rooms) - 1)])

\* PSOSolver._decode_position_to_schedule; python index 2*i is k = 2*i + 1.
DecodeOne(inp, template, time_pos, room_pos) ==
    LET new_course == Course(template.course_id, template.location,
                             template.student_count, template.is_locked,
                             template.duration)
        slots == time_slots_flat(inp.dates)
        time_idx == Clip(time_pos, 0, Len(slots) - 1)
        room_idx == Clip(room_pos, 0, Len(inp.rooms) - 1)
    IN  IF template.is_locked /\ is_scheduled(template)
        THEN Assigned(new_course, template.assigned_date,
                      template.assigned_time, template.assigned_room)
        ELSE Assigned(new_course, slots[time_idx + 1][1], slots[time_idx + 1][2],
                      inp.rooms[room_idx + 1].room_id)

_decode_position_to_schedule(inp, processed, position) ==
    [i \in DOMAIN processed |->
        DecodeOne(inp, processed[i], position[2 * i - 1], position[2 * i])]

\* How many of the courses before index i this pass gave to proctor p.
RECURSIVE AssignLoop(_, _, _, _)
AssignLoop(proctors, cs, i, counts) ==
    IF i > Len(cs) THEN cs
    ELSE IF cs[i].assigned_proctor_id # None
    THEN AssignLoop(proctors, cs, i + 1, counts)
    ELSE LET best == CHOOSE k \in DOMAIN proctors :
                        /\ \A j \in DOMAIN proctors :
                              counts[proctors[k]] <= counts[proctors[j]]
                        /\ \A j \in 1..(k - 1) :
                              counts[proctors[j]] > counts[proctors[k]]
             p == proctors[best]
         IN  AssignLoop(proctors, [cs EXCEPT ![i].assigned_proctor_id = p],
                        i + 1, [counts EXCEPT ![p] = @ + 1])

\* A pass that gives every course without a proctor the first proctor of the
\* list: a fault the load-balancing property must catch.
_assign_first_proctor(proctors, cs) ==
    IF proctors = <<>> \/ cs = <<>> THEN cs
    ELSE [i \in DOMAIN cs |->
            IF cs[i].assigned_proctor_id # None THEN cs[i]
            ELSE [cs[i] EXCEPT !.assigned_proctor_id = proctors[1]]]

\* PSOSolver._assign_proctors_to_schedule
_assign_proctors_to_schedule(proctors, cs) ==
    IF proctors = <<>> \/ cs = <<>> THEN cs
    ELSE AssignLoop(proctors, cs, 1, [p \in Range(proctors) |-> 0])

\* FastPSOSolver._decode_and_cache: as _decode_position_to_schedule, with the
\* indices taken modulo the number of slots and of rooms instead of clipped.
DecodeCachedOne(inp, template, time_pos, room_pos) ==
    LET new_course == Course(template.course_id, template.location,
                             template.student_count, template.is_locked,
                             template.duration)
        slots == time_slots_flat(inp.dates)
        time_idx == time_pos % Len(slots)
        room_idx == room_pos % Len(inp.rooms)
    IN  IF template.is_locked /\ is_scheduled(template)
        THEN Assigned(new_course, template.assigned_date,
                      template.assigned_time, template.assigned_room)
        ELSE Assigned(new_course, slots[time_idx + 1][1], slots[time_idx + 1][2],
                      inp.rooms[room_idx + 1].room_id)

_decode_and_cache(inp, processed, position) ==
    [i \in DOMAIN processed |->
        DecodeCachedOne(inp, processed[i], position[2 * i - 1], position[2 * i])]

\* Decode, assign proctors: the schedule a particle at `position` stands for
\* (pso 300-302 and 357-359, fast_pso 144-145 and 200-201).
ParticleSchedule(inp, position) ==
    _assign_proctors_to_schedule(inp.proctors,
        IF inp.engine = "FastPSO"
        THEN _decode_and_cache(inp, inp.processed_courses, position)
        ELSE _decode_position_to_schedule(inp, inp.processed_courses, position))

Particle(position, cost) ==
    [position |-> position, pbest_position |-> position,
     pbest_value |-> cost, current_value |-> cost]

\* A personal best that follows every evaluation, better or not: a fault the
\* swarm-minimum property must catch.
ImprovesPBestAlways(cost, pbest_value) == TRUE

\* Lines 366 and 372: a strictly smaller cost replaces the personal or the
\* global best.
ImprovesPBest(cost, pbest_value) == cost < pbest_value

ImprovesGBest(cost, gbest_value_) == cost < gbest_value_

\* The seeding sweep (lines 299-314) over particles k..Len(sw), carrying
\* (gbest_position, gbest_value, best_solution).
RECURSIVE SeedSweep(_, _, _, _)
SeedSweep(inp, sw, k, g) ==
    IF k > Len(sw) THEN g
    ELSE LET cs == ParticleSchedule(inp, sw[k].position)
             cost == FastCost(inp, cs)
         IN  SeedSweep(inp, sw, k + 1,
                 IF ImprovesGBest(cost, g.value)
                 THEN [position |-> sw[k].position, value |-> cost,
                       best |-> <<Schedule(cs, cost)>>]
                 ELSE g)

\* ------------------------------------------------------------------------
\* Solver inputs: the constructor arguments and config of one solver object.
\* Dates are day numbers, 7 a Monday.  Room 1 is at location A, room 2 at B.
\* processed_courses is what _prepare_courses_with_sessions makes of the
\* courses: PSOSolver.__init__ keeps it in self.processed_courses (pso 121),
\* SASolver computes the same list when it builds its initial schedule.
\* ------------------------------------------------------------------------
MaxIter == 2

Rooms == <<Room(1, 30, "A"), Room(2, 40, "B")>>

Proctors == <<1, 2>>

\* A locked course scheduled by hand at 08:00 for 120 minutes in room 1.
LockedCourse == Assigned(Course(<<1, 0>>, "A", 25, TRUE, 120), 7, 800, 1)

\* The same course locked into room 2, which is at another location.
LockedElsewhere == Assigned(Course(<<1, 0>>, "A", 25, TRUE, 120), 7, 800, 2)

\* A second locked course, overlapping the first one in time, in room 2.
LockedSecond == Assigned(Course(<<2, 0>>, "B", 28, TRUE, 90), 7, 730, 2)

\* A locked course no room at its location can hold: it is split.
LockedLarge == Assigned(Course(<<1, 0>>, "A", 35, TRUE, 120), 7, 800, 2)

FreeCourse == Course(<<2, 0>>, "A", 10, FALSE, 90)

FreeCourseB == Course(<<2, 0>>, "B", 35, FALSE, 90)

\* 50 students, more than the largest room holds: split into two of 25.
FreeLarge == Course(<<3, 0>>, "A", 50, FALSE, 90)

SAInput(neighbor, courses, dates, t0, tmin, num, den, maxit) ==
    [engine |-> "SA", neighbor_type |-> neighbor, courses |-> courses,
     rooms |-> Rooms, proctors |-> Proctors, dates |-> dates,
     initial_temperature |-> t0, min_temperature |-> tmin,
     cooling_num |-> num, cooling_den |-> den, max_iterations |-> maxit,
     max_exams_per_week |-> 5, max_exams_per_day |-> 1, swarm_size |-> 0,
     processed_courses |-> _prepare_courses_with_sessions(Rooms, courses),
     config |-> DateConfig(<<>>, dates[1], dates[Len(dates)])]

\* An SA solver whose dates come from its configuration
SAConfigured(neighbor, courses, config, t0, tmin, num, den, maxit) ==
    [SAInput(neighbor, courses, available_dates("SA", config), t0, tmin, num, den,
             maxit) EXCEPT !.config = config]

PSOInput(courses, dates, swarm, maxit) ==
    [engine |-> "PSO", neighbor_type |-> "none", courses |-> courses,
     rooms |-> Rooms, proctors |-> Proctors, dates |-> dates,
     initial_temperature |-> 0, min_temperature |-> 0,
     cooling_num |-> 1, cooling_den |-> 1, max_iterations |-> maxit,
     max_exams_per_week |-> 5, max_exams_per_day |-> 1, swarm_size |-> swarm,
     processed_courses |-> _prepare_courses_with_sessions(Rooms, courses),
     config |-> DateConfig(<<>>, dates[1], dates[Len(dates)])]

\* The step and progress events are emitted every tenth iteration (sa 544,
\* pso 384).
ProgressPeriod == 10

\* A run long enough to reach the first periodic progress event: cooling by
\* 3/4 from 4^10 stays integral for ten iterations, and the minimum
\* temperature lies between the ninth and the tenth temperature.
SlowCooling ==
    SAInput("random", <<LockedCourse>>, DateRange(7, 7), 1048576, 78000, 3, 4,
            ProgressPeriod)

Inputs ==
    {SAInput("swap", <<LockedCourse, FreeCourse>>, DateRange(7, 7), 4, 1, 1, 2, MaxIter),
     SAInput("random", <<LockedCourse, FreeCourse>>, DateRange(7, 7), 4, 1, 1, 2, MaxIter),
     SAInput("smart", <<LockedElsewhere, FreeCourse>>, DateRange(7, 7), 4, 1, 1, 2, MaxIter),
     SAInput("random", <<LockedCourse, LockedSecond>>, DateRange(7, 7), 4, 1, 1, 2, MaxIter),
     SAInput("swap", <<LockedCourse, FreeCourse>>, DateRange(7, 7), 1, -1, 0, 1, MaxIter),
     SAConfigured("random", <<FreeLarge>>, DateConfig(<<(<<8>>)>>, 7, 7), 4, 1, 1, 2, 1),
     SlowCooling,
     PSOInput(<<LockedLarge>>, DateRange(7, 7), 2, 1),
     PSOInput(<<LockedLarge>>, DateRange(7, 7), 1, MaxIter),
     PSOInput(<<LockedCourse>>, DateRange(7, 7), 1, MaxIter),
     PSOInput(<<FreeCourseB>>, DateRange(7, 7), 2, 1)}

\* ------------------------------------------------------------------------
\* State of one solver object, of its run() and of what it has emitted.
\* ------------------------------------------------------------------------
VARIABLES
    input,             \* constructor arguments and config
    pc,                \* where run() stands
    is_running, should_stop,
    best_solution,     \* self.best_solution: <<>> for None, else <<schedule>>
    current_solution,  \* self.current_solution, same convention
    iteration, temperature,
    current_schedule, current_cost, best_schedule, best_cost,
    accepted_moves, rejected_moves, total_neighbors,
    backup_data, new_cost,
    swarm, gbest_position, gbest_value, pidx,
    finished_count,    \* finished_signal emissions
    finished_payload,  \* what finished_signal carried, <<>> before
    error_count,       \* error_signal emissions
    late_events,       \* kinds of events emitted after finished_signal
    progress_values,   \* the percentages progress_signal has carried
    before_move,       \* history: the courses before the move being decided
    stop_called,       \* history: stop() was called since the dispatch
    exit_reason,       \* history: why the loop was left
    fault,             \* history: the stage at which an exception was raised
    fault_best,        \* history: the best schedule when it was raised
    call,              \* a checker or the splitter called on its own: the arguments
    result             \* what that call returned, <<>> before it returns

flag_vars == <<is_running, should_stop>>

result_vars == <<best_solution, current_solution>>

sa_vars == <<temperature, current_schedule, current_cost, best_schedule, best_cost,
             accepted_moves, rejected_moves, total_neighbors, backup_data, new_cost,
             before_move>>

pso_vars == <<swarm, gbest_position, gbest_value, pidx>>

event_vars == <<finished_count, finished_payload, error_count, late_events,
               progress_values>>

hist_vars == <<stop_called, exit_reason, fault, fault_best>>

call_vars == <<call, result>>

vars == <<input, pc, iteration, flag_vars, result_vars, sa_vars, pso_vars,
          event_vars, hist_vars, call_vars>>

EmptySchedule == Schedule(<<>>, 0)

\* No direct call of a checker or of the splitter is under way.
NoCall == [fn |-> "none"]

\* The fields of a solver that has not run
Fresh ==
    /\ is_running = FALSE
    /\ should_stop = FALSE
    /\ best_solution = <<>>
    /\ current_solution = <<>>
    /\ iteration = 0
    /\ temperature = 0
    /\ current_schedule = EmptySchedule
    /\ current_cost = 0
    /\ best_schedule = EmptySchedule
    /\ best_cost = 0
    /\ accepted_moves = 0
    /\ rejected_moves = 0
    /\ total_neighbors = 0
    /\ backup_data = NoBackup
    /\ new_cost = 0
    /\ swarm = <<>>
    /\ gbest_position = <<>>
    /\ gbest_value = Infinity
    /\ pidx = 0
    /\ finished_count = 0
    /\ finished_payload = <<>>
    /\ error_count = 0
    /\ late_events = {}
    /\ progress_values = {}
    /\ before_move = <<>>
    /\ stop_called = FALSE
    /\ exit_reason = "none"
    /\ fault = "none"
    /\ fault_best = <<>>

Init ==
    /\ input \in Inputs
    /\ pc = "idle"
    /\ Fresh
    /\ call = NoCall
    /\ result = <<>>

\* The kinds of events recorded as late when emitted after finished_signal.
Emitted(kinds) == IF finished_count > 0 THEN late_events \cup kinds ELSE late_events

\* ------------------------------------------------------------------------
\* Caller side: QThread.start() and BaseSolver.stop()
\* ------------------------------------------------------------------------
\* start(): the run is dispatched to the worker thread; run() has not begun.
Start ==
    /\ pc = "idle"
    /\ pc' = "dispatched"
    /\ UNCHANGED <<input, call_vars, iteration, flag_vars, result_vars, sa_vars, pso_vars,
                   event_vars, hist_vars>>

\* BaseSolver.stop(), called from the caller's thread at any moment after
\* the dispatch: the flag is raised only if is_running is already True.
\* The log line it writes comes from the caller and is not an event of the
\* run.
Stop ==
    /\ pc \notin {"idle", "returned"}
    /\ should_stop' = IF is_running THEN TRUE ELSE should_stop
    /\ stop_called' = TRUE
    /\ UNCHANGED <<input, call_vars, pc, iteration, is_running, result_vars, sa_vars, pso_vars,
                   event_vars, exit_reason, fault, fault_best>>

\* ------------------------------------------------------------------------
\* Worker side: SASolver.run / PSOSolver.run
\* ------------------------------------------------------------------------
\* "self.is_running = True" (sa 462, pso 271, fast_sa 68, fast_pso 118)
RunSetRunning ==
    /\ pc = "dispatched"
    /\ is_running' = TRUE
    /\ pc' = "setup"
    /\ UNCHANGED <<input, call_vars, iteration, should_stop, result_vars, sa_vars, pso_vars,
                   event_vars, hist_vars>>

\* "self.should_stop = False" and the reset of the counters (sa 463-468,
\* pso 272-276, fast_sa 69-73, fast_pso 119-123)
RunResetStop ==
    /\ pc = "setup"
    /\ should_stop' = FALSE
    /\ accepted_moves' = 0
    /\ rejected_moves' = 0
    /\ total_neighbors' = 0
    /\ pc' = IF input.engine \in {"FastSA", "FastPSO"} THEN "fast_init" ELSE "init"
    /\ UNCHANGED <<input, call_vars, iteration, is_running, result_vars, temperature,
                   current_schedule, current_cost, best_schedule, best_cost,
                   backup_data, new_cost, before_move, pso_vars, event_vars,
                   hist_vars>>

\* SA step 1 and the loop's initialisation (sa 474-488)
SAInit ==
    /\ pc = "init"
    /\ input.engine = "SA"
    /\ \E sched \in _generate_initial_solution(input) :
          /\ current_schedule' = sched
          /\ current_cost' = sched.fitness_score
          /\ best_schedule' = sched
          /\ best_cost' = sched.fitness_score
    /\ temperature' = input.initial_temperature
    /\ iteration' = 0
    /\ pc' = "top"
    /\ UNCHANGED <<input, call_vars, flag_vars, result_vars, accepted_moves, rejected_moves,
                   total_neighbors, backup_data, new_cost, before_move, pso_vars,
                   event_vars, hist_vars>>

\* PSO swarm initialisation and seeding sweep (pso 289-323)
PSOInit ==
    /\ pc = "init"
    /\ input.engine = "PSO"
    /\ LET processed == input.processed_courses
       IN \E positions \in SeqProduct([k \in 1..input.swarm_size |->
                                          SearchBox(input, processed)]) :
          \E sw \in {[k \in 1..input.swarm_size |->
                        Particle(positions[k],
                                 FastCost(input, ParticleSchedule(input, positions[k])))]} :
          \E g \in {SeedSweep(input, sw, 1,
                             [position |-> [k \in 1..(2 * Len(processed)) |-> 0],
                              value |-> Infinity, best |-> best_solution])} :
              /\ swarm' = sw
              /\ gbest_position' = g.position
              /\ gbest_value' = g.value
              /\ best_solution' = g.best
    /\ iteration' = 0
    /\ pidx' = 0
    /\ pc' = "top"
    /\ UNCHANGED <<input, call_vars, flag_vars, current_solution, sa_vars, event_vars, hist_vars>>

\* A loop that never looks at its bounds: a fault the termination property
\* must catch.
LoopConditionAlways == TRUE

\* The loop's condition (sa 495, pso 325)
LoopCondition ==
    IF input.engine = "SA"
    THEN temperature > input.min_temperature /\ iteration < input.max_iterations
    ELSE iteration < input.max_iterations /\ is_running

\* The stop check at the top of the loop body (sa 497, pso 326)
StopRequested == should_stop

\* Top of the loop: condition, stop check, runtime check, "iteration += 1"
\* (sa 495-508, pso 325-337).  Whether the wall clock has passed max_runtime
\* is the environment's choice.
LoopTop ==
    /\ pc = "top"
    /\ IF ~LoopCondition
       THEN /\ pc' = "finish" /\ exit_reason' = "condition"
            /\ UNCHANGED <<iteration, pidx>>
       ELSE IF StopRequested
       THEN /\ pc' = "finish" /\ exit_reason' = "stop"
            /\ UNCHANGED <<iteration, pidx>>
       ELSE \/ /\ pc' = "finish" /\ exit_reason' = "timeout"
               /\ UNCHANGED <<iteration, pidx>>
            \/ /\ iteration' = iteration + 1
               /\ pc' = IF input.engine = "SA" THEN "body" ELSE "sweep"
               /\ pidx' = IF input.engine = "SA" THEN pidx ELSE 1
               /\ UNCHANGED exit_reason
    /\ UNCHANGED <<input, call_vars, flag_vars, result_vars, sa_vars, swarm, gbest_position,
                   gbest_value, event_vars, stop_called, fault, fault_best>>

\* A handler that goes back to the loop: a fault the abort property must
\* catch.
HandlerPcRetry == "top"

\* Where an exception raised inside the try block continues: the except
\* clause of run() (sa 608, pso 450).
HandlerPc == "except"

\* A best schedule that is the working schedule itself, not a copy of it: a
\* fault the independence property must catch.
BestAfterWriteAliased(best, working) == working

\* best_schedule after the working schedule has been written in place and
\* now reads `working`.  best_schedule was made by copy.deepcopy (sa 480,
\* 528): it holds course records of its own, which the write does not reach.
BestAfterWrite(best, working) == best

\* SA: the move of one iteration and its fast cost (sa 511-518).  The
\* schedule is modified in place; backup_data holds what _undo_move needs.
SAPerturb ==
    /\ pc = "body"
    /\ \E m \in _perturb_move(input, current_schedule.courses) :
          /\ current_schedule' = [current_schedule EXCEPT !.courses = m.courses]
          /\ best_schedule' = BestAfterWrite(best_schedule,
                    [current_schedule EXCEPT !.courses = m.courses])
          /\ backup_data' = m.backup
          /\ new_cost' = FastCost(input, m.courses)
    /\ before_move' = current_schedule.courses
    /\ total_neighbors' = total_neighbors + 1
    /\ pc' = "decide"
    /\ UNCHANGED <<input, call_vars, iteration, flag_vars, result_vars, temperature, current_cost,
                   best_cost, accepted_moves, rejected_moves,
                   pso_vars, event_vars, hist_vars>>

\* int() of the quotient a / b for b > 0: the fraction is dropped, towards 0.
TruncDiv(a, b) == IF a >= 0 THEN a \div b ELSE -((-a) \div b)

\* BaseSolver._emit_progress (base 354-364): the percentages it emits, none
\* when max_iterations is not positive.
_emit_progress(current_iteration, max_iterations) ==
    IF max_iterations > 0
    THEN {TruncDiv(current_iteration * 100, max_iterations)}
    ELSE {}

\* sa 551-554: int((1 - (T - Tmin) / (T0 - Tmin)) * 100), the share of the
\* way from the initial to the minimum temperature that has been covered.
SAProgress(inp, temp) ==
    TruncDiv(100 * (inp.initial_temperature - temp),
             inp.initial_temperature - inp.min_temperature)

\* "temperature *= self.cooling_rate" (sa 541)
Cooled(temp) == (temp * input.cooling_num) \div input.cooling_den

\* SA: acceptance, best update or rollback, cooling and the periodic step and
\* progress events (sa 518-563).  _acceptance_probability divides by the
\* temperature: at temperature 0 a move that is not better raises
\* ZeroDivisionError, which leaves the loop with the move still applied.
SADecide ==
    /\ pc = "decide"
    /\ IF DivisionFault(current_cost, new_cost, temperature)
       THEN /\ pc' = HandlerPc
            /\ fault' = "loop"
            /\ fault_best' = <<best_schedule>>
            /\ UNCHANGED <<temperature, current_schedule, current_cost, best_schedule,
                           best_cost, accepted_moves, rejected_moves, backup_data,
                           new_cost, before_move, late_events, progress_values>>
       ELSE /\ \E accept \in AcceptDraws(current_cost, new_cost, temperature) :
                IF accept
                THEN /\ current_cost' = new_cost
                     /\ accepted_moves' = accepted_moves + 1
                     /\ IF ImprovesBest(new_cost, best_cost)
                        THEN /\ best_schedule' = current_schedule
                             /\ best_cost' = new_cost
                        ELSE UNCHANGED <<best_schedule, best_cost>>
                     /\ UNCHANGED <<current_schedule, rejected_moves>>
                ELSE /\ \E undone \in {[current_schedule EXCEPT
                                            !.courses = _undo_move(current_schedule.courses,
                                                                   backup_data)]} :
                            /\ current_schedule' = undone
                            /\ best_schedule' = BestAfterWrite(best_schedule, undone)
                     /\ rejected_moves' = rejected_moves + 1
                     /\ UNCHANGED <<current_cost, accepted_moves, best_cost>>
            /\ temperature' = Cooled(temperature)
            /\ backup_data' = NoBackup
            /\ new_cost' = 0
            /\ before_move' = <<>>
            /\ late_events' = IF iteration % ProgressPeriod = 0
                              THEN Emitted({"step", "progress"}) ELSE late_events
            /\ progress_values' =
                  IF iteration % ProgressPeriod = 0
                  THEN progress_values
                       \cup _emit_progress(SAProgress(input, temperature'), 100)
                  ELSE progress_values
            /\ pc' = "top"
            /\ UNCHANGED <<fault, fault_best>>
    /\ UNCHANGED <<input, call_vars, iteration, flag_vars, result_vars, total_neighbors, pso_vars,
                   finished_count, finished_payload, error_count, stop_called,
                   exit_reason>>

\* SA step 3 (sa 565-606).  The statistics log at line 591 divides by
\* total_neighbors: with no iteration done it raises ZeroDivisionError after
\* best_solution has been assigned and before finished_signal is emitted.
SAFinish ==
    /\ pc = "finish"
    /\ input.engine = "SA"
    /\ best_schedule' = [best_schedule EXCEPT
                            !.fitness_score = FinalCost(input, best_schedule.courses)]
    /\ best_solution' = <<best_schedule'>>
    /\ current_solution' = <<current_schedule>>
    /\ IF total_neighbors = 0
       THEN /\ pc' = HandlerPc
            /\ fault' = "finish"
            /\ fault_best' = <<best_schedule'>>
            /\ UNCHANGED <<finished_count, finished_payload, progress_values>>
       ELSE /\ progress_values' =
                  IF iteration % ProgressPeriod # 0
                  THEN progress_values \cup _emit_progress(100, 100)
                  ELSE progress_values
            /\ finished_count' = finished_count + 1
            /\ finished_payload' = <<best_schedule'>>
            /\ pc' = "finally"
            /\ UNCHANGED <<fault, fault_best>>
    /\ late_events' = Emitted({"log"})
    /\ UNCHANGED <<input, call_vars, iteration, flag_vars, temperature, current_schedule,
                   current_cost, best_cost, accepted_moves, rejected_moves,
                   total_neighbors, backup_data, new_cost, before_move, pso_vars,
                   error_count, stop_called, exit_reason>>

\* PSO: move and evaluate particle pidx, update its personal best and the
\* global best (pso 339-379).
PSOParticle ==
    /\ pc = "sweep"
    /\ pidx <= Len(swarm)
    /\ \E position \in SearchBox(input, input.processed_courses) :
          \E cs \in {ParticleSchedule(input, position)} :
          \E cost \in {FastCost(input, cs)} :
          LET better == ImprovesPBest(cost, swarm[pidx].pbest_value)
          IN  /\ swarm' = [swarm EXCEPT
                             ![pidx].position = position,
                             ![pidx].current_value = cost,
                             ![pidx].pbest_value = IF better THEN cost ELSE @,
                             ![pidx].pbest_position = IF better THEN position ELSE @]
              /\ IF better /\ ImprovesGBest(cost, gbest_value)
                 THEN /\ gbest_value' = cost
                      /\ gbest_position' = position
                      /\ best_solution' = <<Schedule(cs, cost)>>
                 ELSE UNCHANGED <<gbest_value, gbest_position, best_solution>>
    /\ pidx' = pidx + 1
    /\ UNCHANGED <<input, call_vars, pc, iteration, flag_vars, current_solution, sa_vars,
                   event_vars, hist_vars>>

\* PSO: end of one iteration, with the periodic step and progress events
\* (pso 381-399).
PSOEndIteration ==
    /\ pc = "sweep"
    /\ pidx > Len(swarm)
    /\ late_events' = IF iteration % ProgressPeriod = 0
                      THEN Emitted({"step", "progress"}) ELSE late_events
    /\ progress_values' =
          IF iteration % ProgressPeriod = 0
          THEN progress_values \cup _emit_progress(iteration, input.max_iterations)
          ELSE progress_values
    /\ pc' = "top"
    /\ UNCHANGED <<input, call_vars, iteration, flag_vars, result_vars, sa_vars, pso_vars,
                   finished_count, finished_payload, error_count, hist_vars>>

\* PSO step 3 (pso 401-448)
PSOFinish ==
    /\ pc = "finish"
    /\ input.engine = "PSO"
    /\ best_solution' =
          IF best_solution = <<>> THEN <<>>
          ELSE LET cs == _assign_proctors_to_schedule(input.proctors,
                                                      best_solution[1].courses)
               IN  <<Schedule(cs, FinalCost(input, cs))>>
    /\ finished_count' = finished_count + 1
    /\ finished_payload' = best_solution'
    /\ late_events' = Emitted({"log"})
    /\ progress_values' =
          IF iteration % ProgressPeriod # 0
          THEN progress_values \cup _emit_progress(100, 100)
          ELSE progress_values
    /\ pc' = "finally"
    /\ UNCHANGED <<input, call_vars, iteration, flag_vars, current_solution, sa_vars, pso_vars,
                   error_count, hist_vars>>

\* An exception raised by a call made while the initial solution is built or
\* while an iteration is under way (for one, ZeroDivisionError in
\* _find_optimal_room for an empty course and a room of capacity 0).
Fault ==
    /\ pc \in {"init", "body", "sweep"}
    /\ fault' = IF pc = "init" THEN "init" ELSE "loop"
    /\ fault_best' = IF input.engine = "SA"
                     THEN (IF pc = "init" THEN <<>> ELSE <<best_schedule>>)
                     ELSE best_solution
    /\ pc' = HandlerPc
    /\ UNCHANGED <<input, call_vars, iteration, flag_vars, result_vars, sa_vars, pso_vars,
                   event_vars, stop_called, exit_reason>>

\* "except Exception": two error events (sa 608-611, pso 450-453)
Except ==
    /\ pc = "except"
    /\ error_count' = error_count + 2
    /\ late_events' = Emitted({"error"})
    /\ pc' = "finally"
    /\ UNCHANGED <<progress_values, input, call_vars, iteration, flag_vars, result_vars, sa_vars, pso_vars,
                   finished_count, finished_payload, hist_vars>>

\* "finally": is_running is cleared and a progress event of 100 % emitted
\* (sa 613-615, pso 455-457)
Finally ==
    /\ pc = "finally"
    /\ is_running' = FALSE
    /\ late_events' = Emitted({"progress"})
    /\ progress_values' = progress_values \cup _emit_progress(100, 100)
    /\ pc' = "returned"
    /\ UNCHANGED <<input, call_vars, iteration, should_stop, result_vars, sa_vars, pso_vars,
                   finished_count, finished_payload, error_count, hist_vars>>

Next ==
    \/ Start
    \/ Stop
    \/ RunSetRunning
    \/ RunResetStop
    \/ SAInit
    \/ PSOInit
    \/ LoopTop
    \/ SAPerturb
    \/ SADecide
    \/ SAFinish
    \/ PSOParticle
    \/ PSOEndIteration
    \/ PSOFinish
    \/ Fault
    \/ Except
    \/ Finally

Spec == Init /\ [][Next]_vars

\* The steps of run() on the worker thread.  Once started, the thread is
\* scheduled until run() returns: it waits on no lock, queue or signal.
RunStep ==
    \/ RunSetRunning \/ RunResetStop \/ SAInit \/ PSOInit \/ LoopTop
    \/ SAPerturb \/ SADecide \/ SAFinish \/ PSOParticle \/ PSOEndIteration
    \/ PSOFinish \/ Except \/ Finally

\* The inputs of the fair specification: an SA run that cools below
\* min_temperature, one that raises in its loop, one on a split course, and
\* PSO runs of one and of two particles.
FairInputs ==
    {SAInput("random", <<LockedCourse, LockedSecond>>, DateRange(7, 7), 4, 1, 1, 2, MaxIter),
     SAInput("swap", <<LockedCourse, FreeCourse>>, DateRange(7, 7), 1, -1, 0, 1, MaxIter),
     SAConfigured("random", <<FreeLarge>>, DateConfig(<<(<<8>>)>>, 7, 7), 4, 1, 1, 2, 1),
     PSOInput(<<LockedLarge>>, DateRange(7, 7), 2, 1),
     PSOInput(<<LockedCourse>>, DateRange(7, 7), 1, MaxIter)}

FairInit == Init /\ input \in FairInputs

\* The solver thread is scheduled until run() returns; the caller (Start,
\* Stop) and the exceptions (Fault) are under no obligation.
FairSpec == FairInit /\ [][Next]_vars /\ WF_vars(RunStep)

\* ------------------------------------------------------------------------
\* FastSASolver.run and FastPSOSolver.run.  Neither has a finally clause, and
\* their except clause emits one error event.
\* ------------------------------------------------------------------------
FastSAInput(neighbor, courses, dates, t0, tmin, num, den, maxit) ==
    [SAInput(neighbor, courses, dates, t0, tmin, num, den, maxit)
        EXCEPT !.engine = "FastSA"]

FastPSOInput(courses, dates, swarm_, maxit) ==
    [PSOInput(courses, dates, swarm_, maxit) EXCEPT !.engine = "FastPSO"]

FastSolverInputs ==
    {FastSAInput("random", <<LockedCourse, FreeCourse>>, DateRange(7, 7), 4, 1, 1, 2, MaxIter),
     FastPSOInput(<<FreeCourseB>>, DateRange(7, 7), 2, 1),
     FastPSOInput(<<LockedCourse>>, DateRange(7, 7), 1, MaxIter),
     FastPSOInput(<<LockedCourse>>, DateRange(7, 7), 1, 0)}

FastInit ==
    /\ input \in FastSolverInputs
    /\ pc = "idle"
    /\ Fresh
    /\ call = NoCall
    /\ result = <<>>

\* FastSASolver.run up to line 94: the courses are prepared and
\* self._create_initial_schedule is looked up.  No class of the solver
\* defines a method of that name (SASolver has _generate_initial_solution),
\* so the lookup raises AttributeError and the rest of the try block, the
\* loop and the finished event included, is never reached.
FastSAInit ==
    /\ pc = "fast_init"
    /\ input.engine = "FastSA"
    /\ fault' = "init"
    /\ fault_best' = <<>>
    /\ pc' = "fast_except"
    /\ UNCHANGED <<input, call_vars, iteration, flag_vars, result_vars, sa_vars, pso_vars,
                   event_vars, stop_called, exit_reason>>

\* FastPSOSolver.run, swarm initialisation and seeding sweep (fast_pso
\* 134-169).  "w_decay = (self.w - w_min) / self.max_iterations" at line 169
\* raises ZeroDivisionError when max_iterations is 0.
FastPSOInit ==
    /\ pc = "fast_init"
    /\ input.engine = "FastPSO"
    /\ LET processed == input.processed_courses
       IN \E positions \in SeqProduct([k \in 1..input.swarm_size |->
                                          SearchBox(input, processed)]) :
          \E sw \in {[k \in 1..input.swarm_size |->
                        Particle(positions[k],
                                 FastCost(input, ParticleSchedule(input, positions[k])))]} :
          \E g \in {SeedSweep(input, sw, 1,
                             [position |-> [k \in 1..(2 * Len(processed)) |-> 0],
                              value |-> Infinity, best |-> best_solution])} :
              /\ swarm' = sw
              /\ gbest_position' = g.position
              /\ gbest_value' = g.value
              /\ best_solution' = g.best
              /\ IF input.max_iterations = 0
                 THEN /\ pc' = "fast_except"
                      /\ fault' = "init"
                      /\ fault_best' = g.best
                 ELSE /\ pc' = "fast_top"
                      /\ UNCHANGED <<fault, fault_best>>
    /\ iteration' = 0
    /\ pidx' = 0
    /\ UNCHANGED <<input, call_vars, flag_vars, current_solution, sa_vars, event_vars,
                   stop_called, exit_reason>>

\* Top of FastPSOSolver's loop (fast_pso 171-177): the condition, the stop
\* check and "iteration += 1"; there is no runtime check.
FastLoopTop ==
    /\ pc = "fast_top"
    /\ IF ~(iteration < input.max_iterations /\ is_running)
       THEN /\ pc' = "fast_finish" /\ exit_reason' = "condition"
            /\ UNCHANGED <<iteration, pidx>>
       ELSE IF should_stop
       THEN /\ pc' = "fast_finish" /\ exit_reason' = "stop"
            /\ UNCHANGED <<iteration, pidx>>
       ELSE /\ iteration' = iteration + 1
            /\ pc' = "fast_sweep"
            /\ pidx' = 1
            /\ UNCHANGED exit_reason
    /\ UNCHANGED <<input, call_vars, flag_vars, result_vars, sa_vars, swarm, gbest_position,
                   gbest_value, event_vars, stop_called, fault, fault_best>>

\* FastPSOSolver: move and evaluate particle pidx (fast_pso 183-218)
FastPSOParticle ==
    /\ pc = "fast_sweep"
    /\ pidx <= Len(swarm)
    /\ \E position \in SearchBox(input, input.processed_courses) :
          \E cs \in {ParticleSchedule(input, position)} :
          \E cost \in {FastCost(input, cs)} :
          LET better == ImprovesPBest(cost, swarm[pidx].pbest_value)
          IN  /\ swarm' = [swarm EXCEPT
                             ![pidx].position = position,
                             ![pidx].current_value = cost,
                             ![pidx].pbest_value = IF better THEN cost ELSE @,
                             ![pidx].pbest_position = IF better THEN position ELSE @]
              /\ IF better /\ ImprovesGBest(cost, gbest_value)
                 THEN /\ gbest_value' = cost
                      /\ gbest_position' = position
                      /\ best_solution' = <<Schedule(cs, cost)>>
                 ELSE UNCHANGED <<gbest_value, gbest_position, best_solution>>
    /\ pidx' = pidx + 1
    /\ UNCHANGED <<input, call_vars, pc, iteration, flag_vars, current_solution, sa_vars,
                   event_vars, hist_vars>>

\* FastPSOSolver: end of one iteration, with the periodic events (fast_pso
\* 220-236)
FastPSOEndIteration ==
    /\ pc = "fast_sweep"
    /\ pidx > Len(swarm)
    /\ late_events' = IF iteration % ProgressPeriod = 0
                      THEN Emitted({"step", "progress"}) ELSE late_events
    /\ progress_values' =
          IF iteration % ProgressPeriod = 0
          THEN progress_values \cup _emit_progress(iteration, input.max_iterations)
          ELSE progress_values
    /\ pc' = "fast_top"
    /\ UNCHANGED <<input, call_vars, iteration, flag_vars, result_vars, sa_vars, pso_vars,
                   finished_count, finished_payload, error_count, hist_vars>>

\* FastPSOSolver step 3 (fast_pso 238-267): the full-model score, the
\* finished event, and the return; is_running is left as it is.
FastPSOFinish ==
    /\ pc = "fast_finish"
    /\ best_solution' =
          IF best_solution = <<>> THEN <<>>
          ELSE <<Schedule(best_solution[1].courses,
                          FullCost(input, best_solution[1].courses))>>
    /\ finished_count' = finished_count + 1
    /\ finished_payload' = best_solution'
    /\ late_events' = Emitted({"log"})
    /\ pc' = "returned"
    /\ UNCHANGED <<input, call_vars, iteration, flag_vars, current_solution, sa_vars, pso_vars,
                   error_count, progress_values, hist_vars>>

\* "except Exception" of the fast solvers: one error event, then run()
\* returns (fast_sa 214-218, fast_pso 269-273); is_running is left as it is.
FastExcept ==
    /\ pc = "fast_except"
    /\ error_count' = error_count + 1
    /\ late_events' = Emitted({"error"})
    /\ pc' = "returned"
    /\ UNCHANGED <<input, call_vars, iteration, flag_vars, result_vars, sa_vars, pso_vars,
                   finished_count, finished_payload, progress_values, hist_vars>>

FastNext ==
    \/ Start
    \/ Stop
    \/ RunSetRunning
    \/ RunResetStop
    \/ FastSAInit
    \/ FastPSOInit
    \/ FastLoopTop
    \/ FastPSOParticle
    \/ FastPSOEndIteration
    \/ FastPSOFinish
    \/ FastExcept

FastSpec == FastInit /\ [][FastNext]_vars

\* ------------------------------------------------------------------------
\* The checkers called on their own, on schedules that need not come from a
\* solver: ConstraintChecker(rooms) with its default workload limits and
\* FastConstraintChecker(rooms) on the same schedule.
\* ------------------------------------------------------------------------
MaxCourses == 2

DEFAULT_MAX_EXAMS_PER_WEEK == 5
DEFAULT_MAX_EXAMS_PER_DAY == 3

\* Room 3 is in no room list.
CallRooms == {1, 2, 3}
CallTimes == {730, 800, 930}
CallCounts == {20, 35}
CallProctors == {None, 1}

\* A course of a drawn schedule: 90 minutes on day 7 at location A.
CourseDraws ==
    {[Assigned(Course(<<0, 0>>, "A", n, FALSE, DEFAULT_DURATION), 7, t, r)
        EXCEPT !.assigned_proctor_id = p] :
        n \in CallCounts, t \in CallTimes, r \in CallRooms, p \in CallProctors}

\* The schedule of the drawn courses, the k-th with id k.
ScheduleDraw(draw) ==
    [k \in DOMAIN draw |-> [draw[k] EXCEPT !.course_id = <<k, 0>>]]

\* The checker calls on schedules of len courses
CalculateCalls(len) ==
    {[fn |-> "calculate", rooms |-> Rooms, courses |-> ScheduleDraw(draw)] :
        draw \in [1..len -> CourseDraws]}

ExamDatesDraws == {<<>>, <<(<<>>)>>, <<(<<7, 9>>)>>, <<(<<8>>)>>}
StartDraws == {None, 7, 8}
EndDraws == {None, 7, 9}

DateCalls ==
    {[fn |-> "dates", engine |-> e, config |-> DateConfig(x, a, b)] :
        e \in {"SA", "PSO"}, x \in ExamDatesDraws, a \in StartDraws, b \in EndDraws}

\* _split_course_into_multiple_courses(course, max_capacity) on a course of
\* 0..MaxStudents students and a largest room of 1..MaxSplitCapacity seats
MaxStudents == 12
MaxSplitCapacity == 5

SplitCalls ==
    {[fn |-> "split", course |-> Course(<<1, 0>>, "A", n, FALSE, DEFAULT_DURATION),
      max_capacity |-> m] : n \in 0..MaxStudents, m \in 1..MaxSplitCapacity}

\* The overlap test on two exams: start times "HH:MM" and minutes
OverlapTimes == {730, 800, 900, 930}
OverlapDurations == {30, 60, 90}

OverlapCalls ==
    {[fn |-> "overlap", t1 |-> t1, d1 |-> d1, t2 |-> t2, d2 |-> d2] :
        t1 \in OverlapTimes, d1 \in OverlapDurations,
        t2 \in OverlapTimes, d2 \in OverlapDurations}

\* The capacity rule of both checkers on one scheduled course of n students
\* in a room of the room list
CapacityCounts == 28..36

CapacityCalls ==
    {[fn |-> "capacity", rooms |-> Rooms, student_count |-> n, room_id |-> r] :
        n \in CapacityCounts, r \in RoomIds(Rooms)}

\* The schedule of one course of n students in room r, day 7 at 07:30
OneCourse(n, r) ==
    <<Assigned(Course(<<1, 0>>, "A", n, FALSE, DEFAULT_DURATION), 7, 730, r)>>

\* The PSO proctor pass on a decoded schedule of 1..MaxAssigned courses, some
\* of which may have a proctor already, with a proctor list in either order
MaxAssigned == 4

ProctorLists == {<<1>>, <<1, 2>>, <<2, 1>>, <<1, 2, 3>>}

\* The schedule whose k-th course, on day 7 at 07:30 in room 1, has proctor
\* given[k]
ProctorSchedule(given) ==
    [k \in DOMAIN given |->
        [Assigned(Course(<<k, 0>>, "A", 20, FALSE, DEFAULT_DURATION), 7, 730, 1)
            EXCEPT !.assigned_proctor_id = given[k]]]

AssignCalls(len) ==
    {[fn |-> "assign", proctors |-> ps, courses |-> ProctorSchedule(given)] :
        ps \in ProctorLists, given \in [1..len -> {None, 1, 2}]}

\* _prepare_courses_with_sessions(courses) of a solver with the two rooms, on
\* one course that fits a room of its location, fits only a room elsewhere,
\* or fits no room, with the default or another exam length
PrepareCounts == {25, 35, 50}
PrepareDurations == {DEFAULT_DURATION, 120}

PrepareCalls ==
    {[fn |-> "prepare", rooms |-> Rooms,
      courses |-> <<Course(<<1, 0>>, loc, n, locked, d)>>] :
        loc \in {"A", "B"}, n \in PrepareCounts, locked \in BOOLEAN,
        d \in PrepareDurations}

Calls == DateCalls \cup SplitCalls \cup OverlapCalls \cup CapacityCalls \cup PrepareCalls

CallInit ==
    /\ \/ call \in Calls
       \/ \E len \in 1..MaxCourses : call \in CalculateCalls(len)
       \/ \E len \in 1..MaxAssigned : call \in AssignCalls(len)
    /\ result = <<>>
    /\ input = [engine |-> "none"]
    /\ pc = "call"
    /\ Fresh

\* calculate_total_violation, calculate_fast and is_feasible of one schedule
Calculate ==
    /\ pc = "call"
    /\ call.fn = "calculate"
    /\ result' = <<[total |-> calculate_total_violation(call.rooms,
                                 DEFAULT_MAX_EXAMS_PER_WEEK,
                                 DEFAULT_MAX_EXAMS_PER_DAY, call.courses),
                    fast |-> calculate_fast(call.rooms, call.courses),
                    feasible |-> is_feasible(call.rooms, call.courses)]>>
    /\ pc' = "called"
    /\ UNCHANGED <<input, call, iteration, flag_vars, result_vars, sa_vars, pso_vars,
                   event_vars, hist_vars>>

\* SASolver(...) or PSOSolver(...): the constructor leaves available_dates
Construct ==
    /\ pc = "call"
    /\ call.fn = "dates"
    /\ result' = <<available_dates(call.engine, call.config)>>
    /\ pc' = "called"
    /\ UNCHANGED <<input, call, iteration, flag_vars, result_vars, sa_vars, pso_vars,
                   event_vars, hist_vars>>

\* BaseSolver._split_course_into_multiple_courses
Split ==
    /\ pc = "call"
    /\ call.fn = "split"
    /\ result' = <<_split_course_into_multiple_courses(call.course, call.max_capacity)>>
    /\ pc' = "called"
    /\ UNCHANGED <<input, call, iteration, flag_vars, result_vars, sa_vars, pso_vars,
                   event_vars, hist_vars>>

\* ConstraintChecker._check_overlap and
\* FastConstraintChecker._check_overlap_cached on the same two exams
Overlap ==
    /\ pc = "call"
    /\ call.fn = "overlap"
    /\ result' = <<[full |-> _check_overlap(call.t1, call.d1, call.t2, call.d2),
                    fast |-> _check_overlap_cached(call.t1, call.d1, call.t2, call.d2),
                    full_swapped |-> _check_overlap(call.t2, call.d2, call.t1, call.d1),
                    fast_swapped |-> _check_overlap_cached(call.t2, call.d2,
                                                           call.t1, call.d1)]>>
    /\ pc' = "called"
    /\ UNCHANGED <<input, call, iteration, flag_vars, result_vars, sa_vars, pso_vars,
                   event_vars, hist_vars>>

\* ConstraintChecker._check_room_capacity and
\* FastConstraintChecker._fast_room_capacity on the course, and on the same
\* course with one student fewer
Capacity ==
    /\ pc = "call"
    /\ call.fn = "capacity"
    /\ result' =
          <<[full |-> _check_room_capacity(call.rooms,
                          OneCourse(call.student_count, call.room_id)),
             fast |-> _fast_room_capacity(call.rooms,
                          OneCourse(call.student_count, call.room_id)),
             full_less |-> _check_room_capacity(call.rooms,
                               OneCourse(call.student_count - 1, call.room_id)),
             fast_less |-> _fast_room_capacity(call.rooms,
                               OneCourse(call.student_count - 1, call.room_id))]>>
    /\ pc' = "called"
    /\ UNCHANGED <<input, call, iteration, flag_vars, result_vars, sa_vars, pso_vars,
                   event_vars, hist_vars>>

\* PSOSolver._assign_proctors_to_schedule
Assign ==
    /\ pc = "call"
    /\ call.fn = "assign"
    /\ result' = <<_assign_proctors_to_schedule(call.proctors, call.courses)>>
    /\ pc' = "called"
    /\ UNCHANGED <<input, call, iteration, flag_vars, result_vars, sa_vars, pso_vars,
                   event_vars, hist_vars>>

\* BaseSolver._prepare_courses_with_sessions
Prepare ==
    /\ pc = "call"
    /\ call.fn = "prepare"
    /\ result' = <<_prepare_courses_with_sessions(call.rooms, call.courses)>>
    /\ pc' = "called"
    /\ UNCHANGED <<input, call, iteration, flag_vars, result_vars, sa_vars, pso_vars,
                   event_vars, hist_vars>>

CallNext == Calculate \/ Construct \/ Split \/ Overlap \/ Capacity \/ Assign \/ Prepare

CallSpec == CallInit /\ [][CallNext]_vars

\* ------------------------------------------------------------------------
\* Properties
\* ------------------------------------------------------------------------
\* The stages of run() at which the working schedule is between two moves.
Settled == {"top", "body", "finish", "finally", "returned"}

\* Course c is in cs with the date, time and room it has in the input.
KeptIn(cs, c) ==
    \E j \in DOMAIN cs :
        /\ cs[j].course_id = c.course_id
        /\ cs[j].assigned_date = c.assigned_date
        /\ cs[j].assigned_time = c.assigned_time
        /\ cs[j].assigned_room = c.assigned_room

LockedInputs == {i \in DOMAIN input.courses :
                    input.courses[i].is_locked /\ is_scheduled(input.courses[i])}

\* C1: in an SA run, whatever the neighbor strategy, every input course that
\* is locked and fully scheduled keeps its input date, time and room in the
\* working schedule between moves, in the best schedule and in the schedule
\* the run returns.
C1_SALockedKept ==
    (input.engine = "SA" /\ pc \in Settled /\ fault = "none") =>
        \A i \in LockedInputs :
            /\ KeptIn(current_schedule.courses, input.courses[i])
            /\ KeptIn(best_schedule.courses, input.courses[i])
            /\ finished_payload # <<>> =>
                  KeptIn(finished_payload[1].courses, input.courses[i])

\* C2: in a PSO run every schedule decoded from a particle position, and the
\* best schedule returned, holds every locked, fully scheduled input course
\* with its input date, time and room.
C2_PSOLockedKept ==
    (input.engine = "PSO" /\ pc \notin {"idle", "dispatched", "setup", "init"}) =>
        \A i \in LockedInputs :
            /\ \A k \in DOMAIN swarm :
                  KeptIn(ParticleSchedule(input, swarm[k].position), input.courses[i])
            /\ best_solution # <<>> =>
                  KeptIn(best_solution[1].courses, input.courses[i])
            /\ finished_payload # <<>> =>
                  KeptIn(finished_payload[1].courses, input.courses[i])

\* C3: undoing a move with the backup it returned gives back the date, time,
\* room and proctor of every course as they were before the move, and a
\* rejected move leaves current_schedule and current_cost as before it.
C3_UndoRestores ==
    /\ [](pc = "decide" =>
            _undo_move(current_schedule.courses, backup_data) = before_move)
    /\ [][(pc = "decide" /\ rejected_moves' # rejected_moves) =>
            /\ current_schedule'.courses = before_move
            /\ current_cost' = current_cost]_vars

\* C3 witness: a move that changed the schedule was rejected and rolled back.
C3_Witness ==
    /\ pc = "top"
    /\ rejected_moves > 0
    /\ accepted_moves = 0
    /\ current_schedule = best_schedule

\* C4: while the loop runs the best cost (SA best_cost, PSO gbest_value)
\* never goes up from one step to the next.
C4_BestNonIncreasing ==
    [][(pc \in {"top", "body", "decide", "sweep"}) =>
            /\ best_cost' <= best_cost
            /\ gbest_value' <= gbest_value]_vars

\* C4 witness: the SA working cost has gone above the best cost, which stayed.
C4_Witness ==
    /\ input.engine = "SA"
    /\ pc = "top"
    /\ iteration > 0
    /\ best_cost < current_cost

\* C5: the schedule carried by finished has as fitness_score the penalty of
\* the full constraint model for that schedule.
C5_FinishedScoreIsFull ==
    finished_count > 0 =>
        /\ finished_payload # <<>>
        /\ finished_payload[1].fitness_score
              = FullCost(input, finished_payload[1].courses)

\* C5 witness: a finished schedule for which the two models differ.
C5_Witness ==
    /\ finished_count > 0
    /\ fault = "none"
    /\ FullCost(input, finished_payload[1].courses)
          # FastCost(input, finished_payload[1].courses)

\* C6: a run whose loop was left on the stop flag ends with one finished
\* event carrying the best schedule found.
C6_StopEndsWithFinished ==
    (pc = "returned" /\ exit_reason = "stop") =>
        /\ finished_count = 1
        /\ best_solution # <<>>
        /\ finished_payload = best_solution

\* C7: once stop() has been called after the dispatch, the loop starts no
\* further iteration.
C7_StopNeverLost ==
    [][(stop_called /\ pc = "top") => pc' \notin {"body", "sweep"}]_vars

\* C8: finished is emitted at most once, exactly once by a run that returns
\* without an error, and no step, progress, log or error event follows it.
C8_FinishedIsLast ==
    /\ finished_count <= 1
    /\ (pc = "returned" /\ fault = "none") => finished_count = 1
    /\ finished_count = 1 => late_events = {}

\* C9: an exception raised inside run() is handled there: the run goes
\* through the handler to its end, an error event is emitted, no finished
\* event is emitted and no iteration follows.
C9_FaultAbortsRun ==
    fault # "none" =>
        /\ pc \in {"except", "finally", "returned"}
        /\ finished_count = 0
        /\ pc # "except" => error_count > 0

\* C9 witness: a run aborted in its loop has returned with an error event.
C9_Witness ==
    /\ pc = "returned"
    /\ fault = "loop"
    /\ iteration > 0
    /\ error_count > 0
    /\ finished_count = 0
    /\ ~is_running

\* C10: after a run aborted by an exception in its loop, get_best_solution()
\* returns the best schedule found before the fault.
C10_BestSurvivesFault ==
    (pc = "returned" /\ fault = "loop") =>
        /\ best_solution # <<>>
        /\ fault_best # <<>>
        /\ best_solution[1].courses = fault_best[1].courses

C12_CurrentCostIsFast ==
    (input.engine = "SA" /\ pc = "top") =>
        current_cost = FastCost(input, current_schedule.courses)

NoSoftRule(rooms, cs) ==
    /\ _check_location_mismatch(rooms, cs) = 0
    /\ _check_unscheduled_courses(cs) = 0
    /\ _check_room_underutilization(rooms, cs) = 0
    /\ check_proctor_workload_per_week(cs, DEFAULT_MAX_EXAMS_PER_WEEK) = 0
    /\ check_proctor_workload_per_day(cs, DEFAULT_MAX_EXAMS_PER_DAY) = 0

\* C14: on a schedule that triggers no soft rule of the full model,
\* calculate_fast returns the value of calculate_total_violation.
C14_FastEqualsFull ==
    (call.fn = "calculate" /\ result # <<>> /\ NoSoftRule(call.rooms, call.courses)) =>
        result[1].fast = result[1].total

\* C15: the trajectory of a run is a function of its inputs and of its random
\* draws.  In particular the loop is left only on what the draws and the
\* inputs have made of the state: while the loop condition holds and no stop
\* has been requested, the step at the top of the loop starts the next
\* iteration, so two runs with the same draws do the same iterations.
C15_TrajectoryIsDetermined ==
    [][(pc = "top" /\ pc' # "top" /\ LoopCondition /\ ~StopRequested) =>
            (pc' \in {"body", "sweep"} /\ iteration' = iteration + 1)]_vars

\* C16: the date universe of either engine is the explicit exam_dates list
\* when the configuration has one; otherwise every day from start_date to
\* end_date inclusive, in order; otherwise the default span.
C16_DateUniverse ==
    (call.fn = "dates" /\ result # <<>>) =>
        result[1] =
            IF call.config.exam_dates # <<>> THEN call.config.exam_dates[1]
            ELSE IF call.config.start_date # None /\ call.config.end_date # None
                 THEN [i \in 1..(IF call.config.end_date >= call.config.start_date
                                 THEN call.config.end_date - call.config.start_date + 1
                                 ELSE 0) |-> call.config.start_date + i - 1]
                 ELSE [i \in 1..DEFAULT_DAYS |-> DEFAULT_BASE_DATE + i - 1]

\* The dates a configuration asks for: its exam_dates when it has the key,
\* else what _generate_exam_dates derives (BaseSolver.__init__, 131-134).
ConfiguredDates(config) ==
    IF config.exam_dates # <<>> THEN Range(config.exam_dates[1])
    ELSE Range(_generate_exam_dates(config))

\* One course per processed course, each with a date of `dates`, a time of
\* the slot list and a room of the room list.
WellPlaced(inp, dates, cs) ==
    /\ Len(cs) = Len(inp.processed_courses)
    /\ \A i \in DOMAIN cs :
          /\ cs[i].course_id = inp.processed_courses[i].course_id
          /\ is_scheduled(cs[i])
          /\ cs[i].assigned_date \in dates
          /\ cs[i].assigned_time \in Range(available_times)
          /\ cs[i].assigned_room \in RoomIds(inp.rooms)

NoLockedInput ==
    /\ input.engine = "SA"
    /\ \A i \in DOMAIN input.courses : ~input.courses[i].is_locked

\* C17: with no locked course in the input, every working schedule of an SA
\* run and the schedule it returns hold exactly one course per processed
\* input course, each scheduled on a date of the configured date universe,
\* at a time of the slot list, in a room of the room list.
C17_SchedulesWellPlaced ==
    NoLockedInput =>
        /\ current_schedule # EmptySchedule =>
              WellPlaced(input, ConfiguredDates(input.config), current_schedule.courses)
        /\ finished_payload # <<>> =>
              WellPlaced(input, ConfiguredDates(input.config),
                         finished_payload[1].courses)

\* C18: splitting a course of n students against a largest room of m seats
\* gives siblings numbered 1, 2, ... of the course's id, whose student counts
\* sum to n, none above m, no two differing by more than 1, the larger ones
\* first.
C18_SplitInvariant ==
    (call.fn = "split" /\ result # <<>>) =>
        LET sib == result[1]
        IN  /\ \A i \in DOMAIN sib :
                  /\ sib[i].course_id = <<call.course.course_id[1], i>>
                  /\ sib[i].student_count <= call.max_capacity
            /\ SumSeq([i \in DOMAIN sib |-> sib[i].student_count])
                  = call.course.student_count
            /\ \A i, j \in DOMAIN sib :
                  /\ sib[i].student_count - sib[j].student_count <= 1
                  /\ i < j => sib[i].student_count >= sib[j].student_count

\* C18 witness: 11 students against 4 seats have been split into 4, 4, 3.
C18_Witness ==
    /\ call.fn = "split"
    /\ call.course.student_count = 11
    /\ call.max_capacity = 4
    /\ result # <<>>
    /\ Len(result[1]) = 3
    /\ result[1][1].student_count = 4
    /\ result[1][3].student_count = 3

\* C19: for valid start times and durations both overlap tests answer
\* whether start1 < end2 and start2 < end1, with end = start + duration in
\* minutes: exams that only touch do not overlap, and swapping the two exams
\* gives the same answer.
C19_OverlapIsOpenIntersection ==
    (call.fn = "overlap" /\ result # <<>>) =>
        LET start1 == 60 * (call.t1 \div 100) + (call.t1 % 100)
            start2 == 60 * (call.t2 \div 100) + (call.t2 % 100)
            end1 == start1 + call.d1
            end2 == start2 + call.d2
        IN  /\ result[1].full = (start1 < end2 /\ start2 < end1)
            /\ result[1].fast = (start1 < end2 /\ start2 < end1)
            /\ (end1 = start2 \/ end2 = start1) =>
                  (~result[1].full /\ ~result[1].fast)
            /\ result[1].full_swapped = result[1].full
            /\ result[1].fast_swapped = result[1].fast

\* C19 witness: an exam of 90 minutes at 07:30 and one at 09:00 touch and
\* have been found not to overlap.
C19_Witness ==
    /\ call.fn = "overlap"
    /\ call.t1 = 730 /\ call.d1 = 90 /\ call.t2 = 900
    /\ result # <<>>
    /\ ~result[1].full
    /\ ~result[1].fast

\* Two courses on one date whose times overlap
TwoOverlapping(cs) ==
    /\ Len(cs) = 2
    /\ cs[1].assigned_date = cs[2].assigned_date
    /\ _check_overlap(cs[1].assigned_time, cs[1].duration,
                      cs[2].assigned_time, cs[2].duration)

\* C20: is_feasible is true exactly when the room-conflict, overcapacity and
\* proctor-conflict totals are all zero.  Two courses in one room on one date
\* at overlapping times have a positive room-conflict total and are not
\* feasible; the same two in different rooms, with no capacity or proctor
\* violation, are feasible.
C20_FeasibleIffNoHardViolation ==
    (call.fn = "calculate" /\ result # <<>>) =>
        LET cs == call.courses
            room == _check_room_conflicts(cs)
            capacity == _check_room_capacity(call.rooms, cs)
            proctor == _check_proctor_conflicts(cs)
        IN  /\ result[1].feasible = (room = 0 /\ capacity = 0 /\ proctor = 0)
            /\ (TwoOverlapping(cs) /\ cs[1].assigned_room = cs[2].assigned_room) =>
                  (room > 0 /\ ~result[1].feasible)
            /\ (TwoOverlapping(cs) /\ cs[1].assigned_room # cs[2].assigned_room
                 /\ capacity = 0 /\ proctor = 0) =>
                  result[1].feasible

\* C20 witness: two overlapping courses moved apart, into rooms 1 and 2, have
\* been found feasible.
C20_Witness ==
    /\ call.fn = "calculate"
    /\ TwoOverlapping(call.courses)
    /\ call.courses[1].assigned_room = 1
    /\ call.courses[2].assigned_room = 2
    /\ result # <<>>
    /\ result[1].feasible

\* C21: for a scheduled course in a room of the room list the overcapacity
\* penalty of both models is 0 when student_count <= capacity and
\* 500 * (1 + overflow / 10) otherwise, overflow = student_count - capacity:
\* positive, and larger than for one student fewer.
C21_CapacityPenaltyScales ==
    (call.fn = "capacity" /\ result # <<>>) =>
        LET capacity == RoomById(call.rooms, call.room_id).capacity
            overflow == call.student_count - capacity
        IN  /\ result[1].fast = result[1].full
            /\ result[1].fast_less = result[1].full_less
            /\ overflow <= 0 => result[1].full = 0
            /\ overflow > 0 =>
                  /\ 10 * result[1].full = 500 * (10 + overflow)
                  /\ result[1].full > 0
                  /\ result[1].full > result[1].full_less

\* C21 witness: 35 students in the room of 30 seats have been charged 750,
\* 34 students 700.
C21_Witness ==
    /\ call.fn = "capacity"
    /\ call.student_count = 35
    /\ call.room_id = 1
    /\ result # <<>>
    /\ result[1].full = 750
    /\ result[1].fast = 750
    /\ result[1].full_less = 700

\* How many of the courses before index i have proctor p
GivenBefore(cs, i, p) ==
    Cardinality({j \in 1..(i - 1) : cs[j].assigned_proctor_id = p})

C23_TimeoutEndsNormally ==
    /\ [][exit_reason = "timeout" => iteration' = iteration]_vars
    /\ []((exit_reason = "timeout" /\ pc = "returned") =>
            /\ finished_count = 1
            /\ error_count = 0
            /\ finished_payload # <<>>
            /\ finished_payload = best_solution)

\* C24: every percentage carried by a progress event of the SA or the PSO
\* solver is an integer between 0 and 100, whatever the temperatures, the
\* cooling rate and the iteration limit of a run whose loop runs.
C24_ProgressWithinPercent == \A p \in progress_values : p \in 0..100

\* The courses of b that differ from the course of a at the same index.
Changed(a, b) == {i \in DOMAIN a : a[i] # b[i]}

\* Course d has the date, the time and the room of course c.
SamePlacement(c, d) ==
    /\ d.assigned_date = c.assigned_date
    /\ d.assigned_time = c.assigned_time
    /\ d.assigned_room = c.assigned_room

\* C25: a `random` perturbation of the SA solver changes the fields of at
\* most one course; it never changes the date, time or room of a locked
\* course; with every course locked it changes at most the proctor of one
\* course.
C25_RandomMoveFrame ==
    [][(pc = "body" /\ pc' = "decide" /\ input.neighbor_type = "random") =>
          LET a == current_schedule.courses
              b == current_schedule'.courses
          IN  /\ DOMAIN b = DOMAIN a
              /\ Cardinality(Changed(a, b)) <= 1
              /\ \A i \in DOMAIN a : a[i].is_locked => SamePlacement(a[i], b[i])
              /\ (\A i \in DOMAIN a : a[i].is_locked) =>
                    \A i \in DOMAIN a :
                       b[i] = [a[i] EXCEPT !.assigned_proctor_id = b[i].assigned_proctor_id]]_vars

\* A random move has given a locked course another proctor, in a schedule
\* whose courses are all locked.
C25_Witness ==
    /\ pc = "decide"
    /\ input.neighbor_type = "random"
    /\ \A i \in DOMAIN before_move : before_move[i].is_locked
    /\ Cardinality(Changed(before_move, current_schedule.courses)) = 1

\* C26: an SA run whose loop executes no iteration (initial temperature not
\* above the minimum, max_iterations = 0, a stop or an exhausted budget
\* before the first iteration) ends with one finished event carrying the
\* initial schedule scored by the full model, and with no error event.
C26_ZeroIterationsFinish ==
    (input.engine = "SA" /\ pc = "returned" /\ exit_reason # "none" /\ iteration = 0) =>
        /\ finished_count = 1
        /\ error_count = 0
        /\ finished_payload # <<>>
        /\ finished_payload[1].courses = current_schedule.courses
        /\ finished_payload[1].fitness_score = FullCost(input, current_schedule.courses)

\* C27: pre-processing preserves the exam length: every sibling of a split
\* course has the duration of the original, and a course that is not split
\* keeps its own.
C27_PrepareKeepsDuration ==
    (call.fn = "prepare" /\ result # <<>>) =>
        \A i \in DOMAIN result[1] : result[1][i].duration = call.courses[1].duration

\* The smallest personal best of the swarm
MinPBest(sw) ==
    CHOOSE v \in {sw[k].pbest_value : k \in DOMAIN sw} :
        \A k \in DOMAIN sw : v <= sw[k].pbest_value

\* C29: in a PSO run with a non-empty swarm, after the seeding sweep and
\* after every particle evaluation, gbest_value is the minimum of the
\* particles' pbest_value, and the fast-model cost of the retained best
\* schedule is gbest_value, until the final re-evaluation.
C29_GBestIsSwarmMinimum ==
    (input.engine = "PSO" /\ pc \in {"top", "sweep", "finish"} /\ swarm # <<>>) =>
        /\ gbest_value = MinPBest(swarm)
        /\ best_solution # <<>>
        /\ FastCost(input, best_solution[1].courses) = gbest_value
        /\ best_solution[1].fitness_score = gbest_value

\* Both particles of a swarm have been evaluated in the loop; the second now
\* holds the global best, below the personal best of the first, which has
\* itself moved to a position that did not improve its personal best.
C29_Witness ==
    /\ input.engine = "PSO"
    /\ pc = "sweep"
    /\ Len(swarm) = 2
    /\ pidx = 3
    /\ swarm[2].pbest_value = swarm[2].current_value
    /\ swarm[2].pbest_value < swarm[1].pbest_value
    /\ swarm[1].position # swarm[1].pbest_position
    /\ gbest_position = swarm[2].position

\* C28: for every engine class, is_running is true while run() executes and
\* false once run() has returned, whether it ended normally, by stop or
\* after an error.
C28_RunningWhileRunOnly ==
    /\ pc \notin {"idle", "dispatched", "returned"} => is_running
    /\ pc = "returned" => ~is_running

\* C30: FastSASolver.run on a valid non-empty input ends with one finished
\* event carrying a best schedule whose fitness_score is the full-model
\* penalty, after an initial schedule and the annealing loop.
C30_FastSAFinishes ==
    (input.engine = "FastSA" /\ pc = "returned") =>
        /\ finished_count = 1
        /\ error_count = 0
        /\ finished_payload # <<>>
        /\ finished_payload[1].courses # <<>>
        /\ finished_payload[1].fitness_score
              = FullCost(input, finished_payload[1].courses)

====
